---- MODULE Spec2Model ----
(***************************************************************************)
(* Model of the arbitrage pipeline of jefter-dev/arbitrage:                *)
(*   ArbitrageService  (src/src/service/arbitrage.service.ts)              *)
(*   ArbitrageFacade   (src/src/facade/arbitrage.facade.ts)                *)
(*   OpportunityRepository (src/src/repository/opportunity.repository.ts)  *)
(*   main              (src/src/app.ts)                                    *)
(*                                                                         *)
(* The exchange adapters are the environment: every call of the            *)
(* IExchangeRepository interface returns a promise that resolves to a      *)
(* value, resolves to null, or rejects.                                    *)
(*                                                                         *)
(* Numbers.  Prices are integers (price units).  A percentage stored in    *)
(* an Opportunity is an integer number of 1/PctScale percent (toFixed(4)), *)
(* the configured threshold an integer number of 1/MinScale percent, one   *)
(* decimal digit finer than the rounding of the stored value.  The         *)
(* comparison of the unrounded spread with the threshold is exact          *)
(* (cross-multiplied), as is the rounding.                                 *)
(***************************************************************************)
EXTENDS Integers, Sequences, FiniteSets, TLC

VARIABLES
    config,          \* ArbitrageService.config: minProfitPercentage, quoteAssetsFilter
    window,          \* the arguments of ArbitrageFacade.run: initialIndex, finalIndex
    db,              \* OpportunityRepository.db.data: executable, potential
    pc,              \* position of the run (facade + generator)
    exchangeData,    \* result of fetchAllPairsFromRepositories
    sharedPairs,     \* result of findSharedPairs
    pairsToAnalyze,  \* sharedPairs.slice(initialIndex, finalIndex)
    i,               \* loop index of streamOpportunities (0-based)
    results,         \* slots of the Promise.all being awaited
    abandoned,       \* requests still outstanding whose Promise.all already rejected
    enriched,        \* enrichedPair of the current group (Maybe)
    cands,           \* priceOpportunities of the current group
    k,               \* position in priceOpportunities (1-based)
    validated,       \* validatedOpp of the current candidate (Maybe)
    yielded,         \* history: every value yielded by streamOpportunities
    trace            \* history: requests issued and stages returned, in order

vars == <<config, window, db, pc, exchangeData, sharedPairs, pairsToAnalyze, i,
          results, abandoned, enriched, cands, k, validated, yielded, trace>>

-----------------------------------------------------------------------------
(* Values *)

\* An optional value: absent (undefined / null) or present.
None == <<>>
Some(x) == <<x>>
IsSome(m) == Len(m) = 1
Get(m) == m[1]

Range(s) == {s[n] : n \in 1..Len(s)}

\* Outcomes of a promise returned by an IExchangeRepository call.
Pending == [tag |-> "pending"]
NULL == [tag |-> "null"]
THROW == [tag |-> "throw"]

\* toFixed(4): stored percentages count 1/PctScale percent.
Decimals == 4
RECURSIVE Pow10(_)
Pow10(n) == IF n = 0 THEN 1 ELSE 10 * Pow10(n - 1)
PctScale == Pow10(Decimals)
\* The threshold counts 1/MinScale percent.
MinScale == 10 * PctScale

\* The registered exchanges, in the insertion order of exchangeRepositories.
ExchangeNames == <<"X", "Y", "Z">>

\* StandardPair: symbol is `${base}/${quote}`, kept as the two parts.
MkPair(ex, base, quote) ==
    [symbol |-> <<base, quote>>, base |-> base, quote |-> quote, exchange |-> ex]

\* StandardTicker
MkTicker(ex, ask, bid) == [tag |-> "ticker", exchange |-> ex, bid |-> bid, ask |-> ask]

\* AssetStatus
MkStatus(cd, cw, dn, wn, info) ==
    [tag |-> "status", canDeposit |-> cd, canWithdraw |-> cw,
     depositNetworks |-> dn, withdrawNetworks |-> wn, assetInfo |-> info]


-----------------------------------------------------------------------------
(* ArbitrageService.findSharedPairs *)

\* Mutation of FilterActive: the length of the filter is not looked at.
FilterDefined(cfg) == IsSome(cfg.quoteAssetsFilter)

\* const filterActive = quoteAssetsFilter && quoteAssetsFilter.length > 0
FilterActive(cfg) ==
    IsSome(cfg.quoteAssetsFilter) /\ Len(Get(cfg.quoteAssetsFilter)) > 0

\* quoteAssetsFilter.includes(pair.quote)
Includes(seq, x) == \E n \in 1..Len(seq) : seq[n] = x

\* pairMap is a Map: a sequence of entries in insertion order of the keys.
MapHas(pm, sym) == \E n \in 1..Len(pm) : pm[n].symbol = sym

\* Mutation of MapPush: a new symbol is put in front of the map.
MapPushNewFirst(pm, name, pair) ==
    LET pm1 == IF MapHas(pm, pair.symbol)
               THEN pm
               ELSE <<[symbol |-> pair.symbol, exchanges |-> <<>>]>> \o pm
    IN [n \in 1..Len(pm1) |->
          IF pm1[n].symbol = pair.symbol
          THEN [pm1[n] EXCEPT !.exchanges =
                   Append(@, [name |-> name, pairData |-> pair])]
          ELSE pm1[n]]

\* if (!pairMap.has(symbol)) pairMap.set(symbol, []); pairMap.get(symbol).push(...)
MapPush(pm, name, pair) ==
    LET pm1 == IF MapHas(pm, pair.symbol)
               THEN pm
               ELSE Append(pm, [symbol |-> pair.symbol, exchanges |-> <<>>])
    IN [n \in 1..Len(pm1) |->
          IF pm1[n].symbol = pair.symbol
          THEN [pm1[n] EXCEPT !.exchanges =
                   Append(@, [name |-> name, pairData |-> pair])]
          ELSE pm1[n]]

\* for (const pair of exchange.pairs) { if (filtered out) continue; push }
RECURSIVE AddPairs(_, _, _, _)
AddPairs(pm, cfg, name, pairs) ==
    IF pairs = <<>> THEN pm
    ELSE LET pair == Head(pairs)
             skip == FilterActive(cfg)
                     /\ ~Includes(Get(cfg.quoteAssetsFilter), pair.quote)
         IN AddPairs(IF skip THEN pm ELSE MapPush(pm, name, pair),
                     cfg, name, Tail(pairs))

\* for (const exchange of exchangeData) ...
RECURSIVE AddExchanges(_, _, _)
AddExchanges(pm, cfg, data) ==
    IF data = <<>> THEN pm
    ELSE AddExchanges(AddPairs(pm, cfg, Head(data).name, Head(data).pairs),
                      cfg, Tail(data))

\* if (exchanges.length >= 2) sharedPairs.push({ symbol, exchanges })
IsShared(entry) == Len(entry.exchanges) >= 2

\* Mutation of FindSharedPairs: pairMap is kept between calls (a field that
\* still holds the groups of the call before).
FindSharedPairsOnKeptMap(data, cfg) ==
    SelectSeq(AddExchanges(sharedPairs, cfg, data), IsShared)

FindSharedPairs(data, cfg) == SelectSeq(AddExchanges(<<>>, cfg, data), IsShared)

\* Array.prototype.slice's reading of an index: a negative one counts from the
\* end; the result is kept within 0..len.
RelativeIndex(n, len) ==
    IF n < 0 THEN (IF len + n < 0 THEN 0 ELSE len + n)
    ELSE (IF n > len THEN len ELSE n)

\* Mutation of Slice: the end index is included.
SliceThroughEnd(seq, start, end) ==
    LET b == RelativeIndex(start, Len(seq))
        e == RelativeIndex(end + 1, Len(seq))
    IN IF b >= e THEN <<>> ELSE SubSeq(seq, b + 1, e)

\* Array.prototype.slice(start, end)
Slice(seq, start, end) ==
    LET b == RelativeIndex(start, Len(seq))
        e == RelativeIndex(end, Len(seq))
    IN IF b >= e THEN <<>> ELSE SubSeq(seq, b + 1, e)

-----------------------------------------------------------------------------
(* ArbitrageService._enrichSinglePairWithTickers *)

\* Mutation of MapSet: the tickers are kept in a list, one entry per answer.
MapSetAppending(m, name, ticker) == Append(m, [name |-> name, ticker |-> ticker])

\* validTickers is a Map: entries in insertion order of the keys;
\* set() on a present key replaces the value and keeps the position.
MapSet(m, name, ticker) ==
    IF \E n \in 1..Len(m) : m[n].name = name
    THEN [n \in 1..Len(m) |->
            IF m[n].name = name THEN [m[n] EXCEPT !.ticker = ticker] ELSE m[n]]
    ELSE Append(m, [name |-> name, ticker |-> ticker])

\* results.forEach((ticker, index) => { if (ticker) validTickers.set(...) })
RECURSIVE ValidTickers(_, _, _, _)
ValidTickers(m, group, res, n) ==
    IF n > Len(res) THEN m
    ELSE ValidTickers(IF res[n] # NULL
                      THEN MapSet(m, group.exchanges[n].name, res[n])
                      ELSE m,
                      group, res, n + 1)

\* The value of the resolved Promise.all: EnrichedPair or null.
EnrichResolved(group, res) ==
    LET vt == ValidTickers(<<>>, group, res, 1)
    IN IF Len(vt) >= 2
       THEN Some([symbol |-> group.symbol, exchanges |-> group.exchanges,
                  tickers |-> vt])
       ELSE None

\* try { await Promise.all(...) ... } catch { return null }
AnyThrow(res) == \E n \in 1..Len(res) : res[n] = THROW
AllArrived(res) == \A n \in 1..Len(res) : res[n] # Pending
\* Mutation of Settled: a rejection never ends the await.
SettledOnlyOnSuccess(res) == AllArrived(res) /\ ~AnyThrow(res)

Settled(res) == AnyThrow(res) \/ AllArrived(res)
NumPending(res) == Cardinality({n \in 1..Len(res) : res[n] = Pending})

\* Mutation of EnrichSinglePairWithTickers: a rejection ends the wait but the
\* tickers that arrived before it are used.
EnrichFromArrivedTickers(group, res) ==
    EnrichResolved(group,
                   [n \in 1..Len(res) |-> IF res[n] \in {THROW, Pending} THEN NULL
                                          ELSE res[n]])

EnrichSinglePairWithTickers(group, res) ==
    IF AnyThrow(res) THEN None ELSE EnrichResolved(group, res)

-----------------------------------------------------------------------------
(* ArbitrageService._findOpportunitiesInSinglePair *)

\* Mutation of SpreadPositive: the comparison of bid and ask is missing.
SpreadUnchecked(buyTicker, sellTicker) == buyTicker.ask > 0

\* buyTicker.ask > 0 && sellTicker.bid > buyTicker.ask
SpreadPositive(buyTicker, sellTicker) ==
    buyTicker.ask > 0 /\ sellTicker.bid > buyTicker.ask

\* Mutation of ClearsThreshold: the spread is not divided by the ask.
ClearsThresholdUndivided(ask, bid, cfg) ==
    (bid - ask) * 100 * MinScale >= cfg.minProfitPercentage

\* ((bid - ask) / ask) * 100 >= minProfitPercentage, cross-multiplied (ask > 0)
ClearsThreshold(ask, bid, cfg) ==
    (bid - ask) * 100 * MinScale >= cfg.minProfitPercentage * ask

\* parseFloat(grossProfitPercentage.toFixed(4)), for a positive spread:
\* the nearest multiple of 1/PctScale, the larger one on a tie.
RoundedProfit(ask, bid) ==
    (2 * (bid - ask) * 100 * PctScale + ask) \div (2 * ask)

MkOpportunity(symbol, buyEntry, sellEntry) ==
    [pair |-> symbol,
     profitPercentage |-> RoundedProfit(buyEntry.ticker.ask, sellEntry.ticker.bid),
     buyAt |-> [exchange |-> buyEntry.name, price |-> buyEntry.ticker.ask],
     sellAt |-> [exchange |-> sellEntry.name, price |-> sellEntry.ticker.bid],
     validation |-> None]

\* The body of the two nested loops for one (i, j).
Emits(tickers, a, b, cfg) ==
    /\ a # b
    /\ SpreadPositive(tickers[a].ticker, tickers[b].ticker)
    /\ ClearsThreshold(tickers[a].ticker.ask, tickers[b].ticker.bid, cfg)

\* Mutation of DetectFrom: the inner loop starts after the outer index, so
\* only one direction of each pair of entries is looked at.
RECURSIVE DetectFromForward(_, _, _, _, _)
DetectFromForward(symbol, tickers, cfg, a, b) ==
    IF a > Len(tickers) THEN <<>>
    ELSE IF b > Len(tickers) THEN DetectFromForward(symbol, tickers, cfg, a + 1, a + 2)
    ELSE (IF Emits(tickers, a, b, cfg)
          THEN <<MkOpportunity(symbol, tickers[a], tickers[b])>>
          ELSE <<>>)
         \o DetectFromForward(symbol, tickers, cfg, a, b + 1)

\* for (i ...) for (j ...) in this order; (a, b) is the next index pair.
RECURSIVE DetectFrom(_, _, _, _, _)
DetectFrom(symbol, tickers, cfg, a, b) ==
    IF a > Len(tickers) THEN <<>>
    ELSE IF b > Len(tickers) THEN DetectFrom(symbol, tickers, cfg, a + 1, 1)
    ELSE (IF Emits(tickers, a, b, cfg)
          THEN <<MkOpportunity(symbol, tickers[a], tickers[b])>>
          ELSE <<>>)
         \o DetectFrom(symbol, tickers, cfg, a, b + 1)

\* Mutation of FindOpportunitiesInSinglePair: candidates are prepended
\* (unshift) instead of appended (push).
RECURSIVE Reversed(_)
Reversed(seq) == IF seq = <<>> THEN <<>> ELSE Append(Reversed(Tail(seq)), Head(seq))
FindOpportunitiesPrepending(ep, cfg) ==
    IF Len(ep.tickers) < 2 THEN <<>>
    ELSE Reversed(DetectFrom(ep.symbol, ep.tickers, cfg, 1, 1))

FindOpportunitiesInSinglePair(ep, cfg) ==
    IF Len(ep.tickers) < 2 THEN <<>>
    ELSE DetectFrom(ep.symbol, ep.tickers, cfg, 1, 1)

-----------------------------------------------------------------------------
(* ArbitrageService._validateSingleOpportunity *)

\* const [baseAsset, quoteAsset] = opportunity.pair.split("/")
BaseAsset(opp) == opp.pair[1]
QuoteAsset(opp) == opp.pair[2]

\* The four lookups of the Promise.all, in array order.
StatusRequests(opp) ==
    << [exchange |-> opp.buyAt.exchange, asset |-> BaseAsset(opp)],
       [exchange |-> opp.buyAt.exchange, asset |-> QuoteAsset(opp)],
       [exchange |-> opp.sellAt.exchange, asset |-> BaseAsset(opp)],
       [exchange |-> opp.sellAt.exchange, asset |-> QuoteAsset(opp)] >>

\* Mutation of CanWithdraw: an absent status counts as able to withdraw.
CanWithdrawUnlessKnown(st) == IF st = NULL THEN TRUE ELSE st.canWithdraw

\* status?.canWithdraw ?? false, status?.canDeposit ?? false
CanWithdraw(st) == IF st = NULL THEN FALSE ELSE st.canWithdraw
CanDeposit(st) == IF st = NULL THEN FALSE ELSE st.canDeposit
\* status?.withdrawNetworks ?? [], status?.depositNetworks ?? []
WithdrawNets(st) == IF st = NULL THEN <<>> ELSE st.withdrawNetworks
DepositNets(st) == IF st = NULL THEN <<>> ELSE st.depositNetworks
\* status?.assetInfo || null
AssetInfo(st) == IF st = NULL THEN "null" ELSE st.assetInfo

\* Mutation of CommonNetworks: filters against the sell side's withdrawNetworks.
CommonNetworksAgainstWithdraw(buyBase, sellBase) ==
    LET wd == WithdrawNets(sellBase)
        In(net) == Includes(wd, net)
    IN SelectSeq(WithdrawNets(buyBase), In)

\* withdrawNetworks.filter((net) => depositNetworks.includes(net))
CommonNetworks(buyBase, sellBase) ==
    LET dep == DepositNets(sellBase)
        In(net) == Includes(dep, net)
    IN SelectSeq(WithdrawNets(buyBase), In)

\* Mutation of IsPathExecutable: the network condition is missing.
IsPathExecutableWithoutNetworks(buyBase, sellBase) ==
    CanWithdraw(buyBase) /\ CanDeposit(sellBase)

IsPathExecutable(buyBase, sellBase) ==
    /\ CanWithdraw(buyBase)
    /\ CanDeposit(sellBase)
    /\ Len(CommonNetworks(buyBase, sellBase)) > 0

\* The value returned when the Promise.all resolved: res = <<buyBase, buyQuote,
\* sellBase, sellQuote>>.
ValidationOf(res) ==
    [isExecutable |-> IsPathExecutable(res[1], res[3]),
     commonNetworks |-> CommonNetworks(res[1], res[3]),
     buyExchange |->
        [canWithdraw |-> CanWithdraw(res[1]),
         withdrawNetworks |->
            IF res[1] = NULL THEN None ELSE Some(res[1].withdrawNetworks)],
     sellExchange |->
        [canDeposit |-> CanDeposit(res[3]),
         depositNetworks |->
            IF res[3] = NULL THEN None ELSE Some(res[3].depositNetworks)],
     assetDetails |->
        [baseAsset |-> [buyExchange |-> AssetInfo(res[1]),
                        sellExchange |-> AssetInfo(res[3])],
         quoteAsset |-> [buyExchange |-> AssetInfo(res[2]),
                         sellExchange |-> AssetInfo(res[4])]]]

\* Mutation of ValidateSingleOpportunity: once every lookup has settled, a
\* rejected one counts as null.
ValidateWithDefaultsOnThrow(opp, res) ==
    LET soft == [n \in 1..Len(res) |-> IF res[n] = THROW THEN NULL ELSE res[n]]
    IN IF AnyThrow(res) /\ ~AllArrived(res) THEN None
       ELSE Some([opp EXCEPT !.validation = Some(ValidationOf(soft))])

\* try { ... return { ...opportunity, validation } } catch { return null }
ValidateSingleOpportunity(opp, res) ==
    IF AnyThrow(res) THEN None
    ELSE Some([opp EXCEPT !.validation = Some(ValidationOf(res))])

-----------------------------------------------------------------------------
(* The environment of a run *)

Assets == {"AAA", "BBB"}
Quotes == {"USDT", "USDC"}
Networks == {"ERC20", "TRC20"}

\* Prices a ticker can carry (0: an empty side of the book).
Prices == {0, 3, 4, 100, 103}

\* What fetchTicker(pair) can settle to.
\* X (ask 100, bid 99.5) and Y (ask 105, bid 103), in half units.
ScenarioTickers(ex) == {MkTicker(ex, 200, 199), MkTicker(ex, 210, 206)}
TickerValues(ex) ==
    {MkTicker(ex, ask, bid) : ask \in Prices, bid \in Prices} \cup ScenarioTickers(ex)
RunTickerValues(ex) == {MkTicker(ex, 100, 99), MkTicker(ex, 105, 103)}
RunTickerResponses(ex) == {THROW, NULL} \cup RunTickerValues(ex)

\* Network lists without repetition, in every order.
NetworkLists ==
    {<<>>} \cup {<<n>> : n \in Networks}
           \cup {<<n, m>> : <<n, m>> \in {pr \in Networks \X Networks : pr[1] # pr[2]}}

\* What getAssetStatus(asset) can settle to.
StatusValues ==
    {MkStatus(cd, cw, dn, wn, "raw") :
        cd \in BOOLEAN, cw \in BOOLEAN, dn \in NetworkLists, wn \in NetworkLists}
RunStatusValues ==
    {MkStatus(TRUE, TRUE, <<"ERC20">>, <<"ERC20">>, "raw")}
\* In a run the quote asset is known to every exchange; a base asset may be
\* unknown (null).
RunStatusResponses(req) ==
    IF req.asset \in Quotes THEN {THROW} \cup RunStatusValues
    ELSE {THROW, NULL} \cup RunStatusValues

\* What fetchAllPairs() of each exchange resolves to in a run.
RunListing ==
    << [name |-> "X", pairs |-> <<MkPair("X", "AAA", "USDT"), MkPair("X", "BBB", "USDT")>>],
       [name |-> "Y", pairs |-> <<MkPair("Y", "AAA", "USDT"), MkPair("Y", "BBB", "USDT")>>],
       [name |-> "Z", pairs |-> <<MkPair("Z", "AAA", "USDT")>>] >>
\* Every adapter's fetchAllPairs() caught its error and returned [].
EmptyListing == [n \in 1..Len(ExchangeNames) |-> [name |-> ExchangeNames[n], pairs |-> <<>>]]

RunListings == {RunListing, EmptyListing}

\* minProfitPercentage = -10, 0.5 and 5 (percent), no quoteAssetsFilter (app.ts).
RunConfigs ==
    {[minProfitPercentage |-> m, quoteAssetsFilter |-> None] :
        m \in {-10 * MinScale, MinScale \div 2, 5 * MinScale}}

\* INITIAL_QUANTITY_ANALYZED, FINAL_QUANTITY_ANALYZED
RunWindows == {[initialIndex |-> 0, finalIndex |-> 2000]}

\* Records left in the store by an earlier run.
OldRecord(exec) ==
    [pair |-> <<"AAA", "USDT">>, profitPercentage |-> 3 * PctScale,
     buyAt |-> [exchange |-> "X", price |-> 100],
     sellAt |-> [exchange |-> "Y", price |-> 103],
     validation |-> Some(ValidationOf(
        IF exec THEN <<CHOOSE st \in RunStatusValues : TRUE, NULL,
                       CHOOSE st \in RunStatusValues : TRUE, NULL>>
        ELSE <<NULL, NULL, NULL, NULL>>))]

-----------------------------------------------------------------------------
(* History *)

Event(ev, group, cand, slot) ==
    [ev |-> ev, group |-> group, cand |-> cand, slot |-> slot]

\* An "enriched" or "validated" event carries 1 when the stage returned a value,
\* 0 when it returned null; a "detected" event carries the number of candidates;
\* a "clear" or "add" event carries 1 for "executable", 0 for "potential".
Flag(b) == IF b THEN 1 ELSE 0

\* One event per request of a Promise.all, in array order.
Issued(ev, group, cand, n) == [slot \in 1..n |-> Event(ev, group, cand, slot)]

\* The history of run() once the pair lists are fetched.
RunPrefix ==
    <<Event("clear", 0, 0, Flag(TRUE)), Event("clear", 0, 0, Flag(FALSE)),
      Event("fetchAllPairs", 0, 0, 0)>>

-----------------------------------------------------------------------------
(* ArbitrageFacade.run, main *)

Idle ==
    /\ exchangeData = <<>>
    /\ sharedPairs = <<>>
    /\ pairsToAnalyze = <<>>
    /\ i = 0
    /\ results = <<>>
    /\ abandoned = 0
    /\ enriched = None
    /\ cands = <<>>
    /\ k = 1
    /\ validated = None
    /\ yielded = <<>>
    /\ trace = <<>>

Init ==
    /\ config \in RunConfigs
    /\ window \in RunWindows
    /\ db = [executable |-> <<OldRecord(TRUE)>>, potential |-> <<OldRecord(FALSE)>>]
    /\ pc = "clearExecutable"
    /\ Idle

\* Mutation of Clear: the collection is written back as it was read.
ClearKeeping(data, type) == data

\* OpportunityRepository.clear(type)
Clear(data, type) == [data EXCEPT ![type] = <<>>]
\* OpportunityRepository.add(opportunity, type)
Add(data, opp, type) == [data EXCEPT ![type] = Append(@, opp)]

\* await this.opportunityRepository.clear("executable")
ClearExecutable ==
    /\ pc = "clearExecutable"
    /\ db' = Clear(db, "executable")
    /\ trace' = Append(trace, Event("clear", 0, 0, Flag(TRUE)))
    /\ pc' = "clearPotential"
    /\ UNCHANGED <<config, window, exchangeData, sharedPairs, pairsToAnalyze, i,
                   results, abandoned, enriched, cands, k, validated, yielded>>

\* await this.opportunityRepository.clear("potential")
ClearPotential ==
    /\ pc = "clearPotential"
    /\ db' = Clear(db, "potential")
    /\ trace' = Append(trace, Event("clear", 0, 0, Flag(FALSE)))
    /\ pc' = "fetchAllPairs"
    /\ UNCHANGED <<config, window, exchangeData, sharedPairs, pairsToAnalyze, i,
                   results, abandoned, enriched, cands, k, validated, yielded>>

\* await this.arbitrageService.fetchAllPairsFromRepositories(): every
\* fetchAllPairs() resolved.
FetchAllPairs ==
    /\ pc = "fetchAllPairs"
    /\ exchangeData' \in RunListings
    /\ trace' = Append(trace, Event("fetchAllPairs", 0, 0, 0))
    /\ pc' = "findSharedPairs"
    /\ UNCHANGED <<config, window, db, sharedPairs, pairsToAnalyze, i,
                   results, abandoned, enriched, cands, k, validated, yielded>>

\* What the promises of the Promise.all settled to when the fetchAllPairs()
\* of one exchange rejected and the others resolved.
RejectedListings ==
    {[RunListing EXCEPT ![n] = THROW] : n \in 1..Len(ExchangeNames)}

\* A fetchAllPairs() rejected: Promise.all rejects, run() throws, and
\* main().catch calls process.exit(1).
FetchAllPairsRejects ==
    /\ pc = "fetchAllPairs"
    /\ results' \in RejectedListings
    /\ pc' = "exit1"
    /\ UNCHANGED <<config, window, db, exchangeData, sharedPairs, pairsToAnalyze, i,
                   abandoned, enriched, cands, k, validated, yielded, trace>>

\* findSharedPairs(exchangePairResults); sharedPairs.slice(initialIndex, finalIndex);
\* the first next() of the generator enters the loop.
FindShared ==
    /\ pc = "findSharedPairs"
    /\ sharedPairs' = FindSharedPairs(exchangeData, config)
    /\ pairsToAnalyze' = Slice(sharedPairs', window.initialIndex, window.finalIndex)
    /\ i' = 0
    /\ pc' = "loop"
    /\ UNCHANGED <<config, window, db, exchangeData,
                   results, abandoned, enriched, cands, k, validated, yielded, trace>>

-----------------------------------------------------------------------------
(* ArbitrageService.streamOpportunities *)

Group == pairsToAnalyze[i + 1]

\* Mutation of NextIndex: the same group is taken again.
SameIndex(n) == n

\* i++ of the for loop
NextIndex(n) == n + 1

\* for (let i = 0; i < sharedPairs.length; i++): the loop condition holds;
\* _enrichSinglePairWithTickers maps every member to a fetchTicker call.
IssueTickers ==
    /\ pc = "loop"
    /\ i < Len(pairsToAnalyze)
    /\ results' = [n \in 1..Len(Group.exchanges) |-> Pending]
    /\ trace' = trace \o Issued("fetchTicker", i, 0, Len(Group.exchanges))
    /\ pc' = "awaitTickers"
    /\ UNCHANGED <<config, window, db, exchangeData, sharedPairs, pairsToAnalyze, i,
                   abandoned, enriched, cands, k, validated, yielded>>

\* The loop condition fails: the generator returns, the for await ends and
\* run() logs the final summary.
Finish ==
    /\ pc = "loop"
    /\ i >= Len(pairsToAnalyze)
    /\ pc' = "done"
    /\ UNCHANGED <<config, window, db, exchangeData, sharedPairs, pairsToAnalyze, i,
                   results, abandoned, enriched, cands, k, validated, yielded, trace>>

\* One fetchTicker promise settles while Promise.all is still pending.
TickerSettles ==
    /\ pc = "awaitTickers"
    /\ ~Settled(results)
    /\ \E n \in 1..Len(results) :
         /\ results[n] = Pending
         /\ \E r \in RunTickerResponses(Group.exchanges[n].name) :
              results' = [results EXCEPT ![n] = r]
    /\ UNCHANGED <<config, window, db, pc, exchangeData, sharedPairs, pairsToAnalyze,
                   i, abandoned, enriched, cands, k, validated, yielded, trace>>

\* Where streamOpportunities goes when _enrichSinglePairWithTickers returned:
\* if (!enrichedPair) continue
AfterEnrich(ep) == IF IsSome(ep) THEN "detect" ELSE "loop"

\* Promise.all settled; _enrichSinglePairWithTickers returns.
EnrichReturns ==
    /\ pc = "awaitTickers"
    /\ Settled(results)
    /\ enriched' = EnrichSinglePairWithTickers(Group, results)
    /\ abandoned' = abandoned + NumPending(results)
    /\ results' = <<>>
    /\ trace' = Append(trace, Event("enriched", i, 0, Flag(IsSome(enriched'))))
    /\ pc' = AfterEnrich(enriched')
    /\ i' = IF IsSome(enriched') THEN i ELSE NextIndex(i)
    /\ UNCHANGED <<config, window, db, exchangeData, sharedPairs, pairsToAnalyze,
                   cands, k, validated, yielded>>

\* priceOpportunities = _findOpportunitiesInSinglePair(enrichedPair);
\* if (priceOpportunities.length === 0) continue
Detect ==
    /\ pc = "detect"
    /\ cands' = FindOpportunitiesInSinglePair(Get(enriched), config)
    /\ k' = 1
    /\ trace' = Append(trace, Event("detected", i, Len(cands'), 0))
    /\ pc' = IF Len(cands') = 0 THEN "loop" ELSE "validate"
    /\ i' = IF Len(cands') = 0 THEN NextIndex(i) ELSE i
    /\ UNCHANGED <<config, window, db, exchangeData, sharedPairs, pairsToAnalyze,
                   results, abandoned, enriched, validated, yielded>>

\* Mutation of MoreCandidates: the last candidate is left out.
MoreCandidatesButLast(list, n) == n < Len(list)

\* for (const priceOpp of priceOpportunities): there is a next candidate
MoreCandidates(list, n) == n <= Len(list)

\* _validateSingleOpportunity issues the four getAssetStatus calls.
IssueStatus ==
    /\ pc = "validate"
    /\ MoreCandidates(cands, k)
    /\ results' = [n \in 1..Len(StatusRequests(cands[k])) |-> Pending]
    /\ trace' = trace \o Issued("getAssetStatus", i, k, Len(StatusRequests(cands[k])))
    /\ pc' = "awaitStatus"
    /\ UNCHANGED <<config, window, db, exchangeData, sharedPairs, pairsToAnalyze, i,
                   abandoned, enriched, cands, k, validated, yielded>>

\* One getAssetStatus promise settles while Promise.all is still pending.
StatusSettles ==
    /\ pc = "awaitStatus"
    /\ ~Settled(results)
    /\ \E n \in 1..Len(results) :
         /\ results[n] = Pending
         /\ \E r \in RunStatusResponses(StatusRequests(cands[k])[n]) :
              results' = [results EXCEPT ![n] = r]
    /\ UNCHANGED <<config, window, db, pc, exchangeData, sharedPairs, pairsToAnalyze,
                   i, abandoned, enriched, cands, k, validated, yielded, trace>>

\* Promise.all settled; _validateSingleOpportunity returns;
\* if (validatedOpp) yield validatedOpp
ValidateReturns ==
    /\ pc = "awaitStatus"
    /\ Settled(results)
    /\ validated' = ValidateSingleOpportunity(cands[k], results)
    /\ abandoned' = abandoned + NumPending(results)
    /\ results' = <<>>
    /\ trace' = Append(trace, Event("validated", i, k, Flag(IsSome(validated'))))
    /\ pc' = IF IsSome(validated') THEN "yield" ELSE "validate"
    /\ k' = IF IsSome(validated') THEN k ELSE k + 1
    /\ UNCHANGED <<config, window, db, exchangeData, sharedPairs, pairsToAnalyze, i,
                   enriched, cands, yielded>>

\* Mutation of Yield: the generator goes on without handing the value to the
\* body of the for await.
YieldAndGoOn ==
    /\ pc = "yield"
    /\ yielded' = Append(yielded, Get(validated))
    /\ validated' = None
    /\ k' = k + 1
    /\ pc' = "validate"
    /\ UNCHANGED <<config, window, db, exchangeData, sharedPairs, pairsToAnalyze, i,
                   results, abandoned, enriched, cands, trace>>

\* yield validatedOpp: the value reaches the for await of run().
Yield ==
    /\ pc = "yield"
    /\ yielded' = Append(yielded, Get(validated))
    /\ pc' = "add"
    /\ UNCHANGED <<config, window, db, exchangeData, sharedPairs, pairsToAnalyze, i,
                   results, abandoned, enriched, cands, k, validated, trace>>

\* Mutation of Category: the validation is not looked at.
CategoryAlwaysPotential(opp) == "potential"

\* if (opportunity.validation?.isExecutable) "executable" else "potential"
Category(opp) ==
    IF IsSome(opp.validation) /\ Get(opp.validation).isExecutable
    THEN "executable" ELSE "potential"

\* Mutation of AddOpportunity: the category is cleared before each add.
AddAfterClear ==
    /\ pc = "add"
    /\ db' = Add(Clear(db, Category(Get(validated))), Get(validated),
                 Category(Get(validated)))
    /\ trace' = trace \o
          <<Event("clear", 0, 0, Flag(Category(Get(validated)) = "executable")),
            Event("add", i, k, Flag(Category(Get(validated)) = "executable"))>>
    /\ validated' = None
    /\ k' = k + 1
    /\ pc' = "validate"
    /\ UNCHANGED <<config, window, exchangeData, sharedPairs, pairsToAnalyze, i,
                   results, abandoned, enriched, cands, yielded>>

\* The body of the for await: await this.opportunityRepository.add(...);
\* then the generator is resumed.
AddOpportunity ==
    /\ pc = "add"
    /\ db' = Add(db, Get(validated), Category(Get(validated)))
    /\ trace' = Append(trace, Event("add", i, k,
                                    Flag(Category(Get(validated)) = "executable")))
    /\ validated' = None
    /\ k' = k + 1
    /\ pc' = "validate"
    /\ UNCHANGED <<config, window, exchangeData, sharedPairs, pairsToAnalyze, i,
                   results, abandoned, enriched, cands, yielded>>

\* opportunityRepository.add rejects (db.read or db.write failed) in the body
\* of the for await: the loop calls return() on the generator, which ends at
\* its yield; run() rejects and main().catch calls process.exit(1). The store
\* keeps what was written before.
AddOpportunityRejects ==
    /\ pc = "add"
    /\ pc' = "exit1"
    /\ UNCHANGED <<config, window, db, exchangeData, sharedPairs, pairsToAnalyze, i,
                   results, abandoned, enriched, cands, k, validated, yielded, trace>>

\* The candidates are exhausted: await this.delay(30), then i++.
Delay ==
    /\ pc = "validate"
    /\ ~MoreCandidates(cands, k)
    /\ trace' = Append(trace, Event("delay", i, 0, 0))
    /\ i' = NextIndex(i)
    /\ pc' = "loop"
    /\ UNCHANGED <<config, window, db, exchangeData, sharedPairs, pairsToAnalyze,
                   results, abandoned, enriched, cands, k, validated, yielded>>

\* A request whose Promise.all already rejected gets its answer: nobody reads it.
AbandonedSettles ==
    /\ abandoned > 0
    /\ abandoned' = abandoned - 1
    /\ UNCHANGED <<config, window, db, pc, exchangeData, sharedPairs, pairsToAnalyze,
                   i, results, enriched, cands, k, validated, yielded, trace>>

Next ==
    \/ ClearExecutable
    \/ ClearPotential
    \/ FetchAllPairs
    \/ FetchAllPairsRejects
    \/ FindShared
    \/ IssueTickers
    \/ Finish
    \/ TickerSettles
    \/ EnrichReturns
    \/ Detect
    \/ IssueStatus
    \/ StatusSettles
    \/ ValidateReturns
    \/ Yield
    \/ AddOpportunity
    \/ Delay
    \/ AbandonedSettles

Spec == Init /\ [][Next]_vars

\* The run with a store whose add can fail.
NextStoreFails == Next \/ AddOpportunityRejects

SpecStoreFails == Init /\ [][NextStoreFails]_vars

\* Every external call eventually returns and the event loop runs every
\* continuation that is ready: a step that can be taken is eventually taken.
SpecLive == Spec /\ WF_vars(Next)

-----------------------------------------------------------------------------
(* findSharedPairs over all small listings *)

\* The longest pair list of one exchange.
MaxPairsPerSource == 2

BoundedSeqs(S, n) == UNION {[1..m -> S] : m \in 0..n}

ListedSymbols == {<<"AAA", "USDT">>, <<"BBB", "USDT">>, <<"AAA", "USDC">>}

\* Every list fetchAllPairs() of exchange ex can resolve to: any symbols, in
\* any order, a symbol possibly more than once.
PairLists(ex) ==
    BoundedSeqs({MkPair(ex, sym[1], sym[2]) : sym \in ListedSymbols}, MaxPairsPerSource)

Listings ==
    {<<[name |-> ExchangeNames[1], pairs |-> p1],
       [name |-> ExchangeNames[2], pairs |-> p2],
       [name |-> ExchangeNames[3], pairs |-> p3]>> :
        p1 \in PairLists(ExchangeNames[1]),
        p2 \in PairLists(ExchangeNames[2]),
        p3 \in PairLists(ExchangeNames[3])}

\* quoteAssetsFilter: absent, empty, one quote, both quotes.
Filters == {None, Some(<<>>), Some(<<"USDT">>), Some(<<"USDT", "USDC">>)}

\* run() has fetched the pair lists and is about to call findSharedPairs.
InitResolver ==
    /\ config \in {[minProfitPercentage |-> MinScale \div 2, quoteAssetsFilter |-> f] :
                      f \in Filters}
    /\ window \in RunWindows
    /\ db = [executable |-> <<>>, potential |-> <<>>]
    /\ pc = "findSharedPairs"
    /\ exchangeData \in Listings
    /\ sharedPairs = <<>>
    /\ pairsToAnalyze = <<>>
    /\ i = 0
    /\ results = <<>>
    /\ abandoned = 0
    /\ enriched = None
    /\ cands = <<>>
    /\ k = 1
    /\ validated = None
    /\ yielded = <<>>
    /\ trace = RunPrefix

SpecResolver == InitResolver /\ [][FindShared]_vars

\* findSharedPairs is called once more with the same lists on the same
\* service; the lists and the config are what the first call left of them.
FindSharedAgain ==
    /\ pc = "loop"
    /\ i = 0
    /\ sharedPairs' = FindSharedPairs(exchangeData, config)
    /\ pc' = "resolvedTwice"
    /\ UNCHANGED <<config, window, db, exchangeData, pairsToAnalyze, i,
                   results, abandoned, enriched, cands, k, validated, yielded, trace>>

NextResolverTwice == FindShared \/ FindSharedAgain

SpecResolverTwice == InitResolver /\ [][NextResolverTwice]_vars

-----------------------------------------------------------------------------
(* _findOpportunitiesInSinglePair over all small ticker maps *)

\* Thresholds in 1/MinScale percent: -10, 0, 0.5, 5 and 33.33332 percent.
DetectMins == {-10 * MinScale, 0, MinScale \div 2, 5 * MinScale, 3333332}

\* The group whose three members list AAA/USDT.
FullGroup ==
    [symbol |-> <<"AAA", "USDT">>,
     exchanges |-> [n \in 1..Len(ExchangeNames) |->
        [name |-> ExchangeNames[n],
         pairData |-> MkPair(ExchangeNames[n], "AAA", "USDT")]]]

FullListing ==
    [n \in 1..Len(ExchangeNames) |->
        [name |-> ExchangeNames[n],
         pairs |-> <<MkPair(ExchangeNames[n], "AAA", "USDT")>>]]

\* What the members answered: a ticker, or null.
TickerAnswers ==
    {res \in [1..Len(ExchangeNames) ->
                {NULL} \cup UNION {TickerValues(ExchangeNames[n]) : n \in 1..Len(ExchangeNames)}] :
        \A n \in 1..Len(ExchangeNames) :
            res[n] = NULL \/ res[n].exchange = ExchangeNames[n]}

\* streamOpportunities has enriched its only group and is about to detect.
InitDetector ==
    /\ config \in {[minProfitPercentage |-> m, quoteAssetsFilter |-> None] :
                      m \in DetectMins}
    /\ window \in RunWindows
    /\ db = [executable |-> <<>>, potential |-> <<>>]
    /\ pc = "detect"
    /\ exchangeData = FullListing
    /\ sharedPairs = <<FullGroup>>
    /\ pairsToAnalyze = <<FullGroup>>
    /\ i = 0
    /\ results = <<>>
    /\ abandoned = 0
    /\ \E res \in TickerAnswers :
         /\ IsSome(EnrichSinglePairWithTickers(FullGroup, res))
         /\ enriched = EnrichSinglePairWithTickers(FullGroup, res)
    /\ cands = <<>>
    /\ k = 1
    /\ validated = None
    /\ yielded = <<>>
    /\ trace = Append(RunPrefix \o Issued("fetchTicker", 0, 0, Len(FullGroup.exchanges)),
                      Event("enriched", 0, 0, 1))

SpecDetector == InitDetector /\ [][Detect]_vars

-----------------------------------------------------------------------------
(* _validateSingleOpportunity over all small asset statuses *)

\* The candidate of tickers X (ask 100) and Y (bid 103).
ProbeEnriched ==
    [symbol |-> FullGroup.symbol, exchanges |-> FullGroup.exchanges,
     tickers |-> <<[name |-> "X", ticker |-> MkTicker("X", 100, 99)],
                   [name |-> "Y", ticker |-> MkTicker("Y", 105, 103)]>>]

ProbeConfig == [minProfitPercentage |-> MinScale \div 2, quoteAssetsFilter |-> None]

ProbeCands == FindOpportunitiesInSinglePair(ProbeEnriched, ProbeConfig)

\* How the four lookups settled: the base asset in any status, unknown or
\* failing; the quote asset in one status, unknown or failing.
StatusAnswers ==
    {<<bb, bq, sb, sq>> :
        bb \in {THROW, NULL} \cup StatusValues,
        bq \in {THROW, NULL} \cup RunStatusValues,
        sb \in {THROW, NULL} \cup StatusValues,
        sq \in {THROW, NULL} \cup RunStatusValues}

\* streamOpportunities awaits the lookups of its only candidate, all settled.
InitValidator ==
    /\ config = ProbeConfig
    /\ window \in RunWindows
    /\ db = [executable |-> <<>>, potential |-> <<>>]
    /\ pc = "awaitStatus"
    /\ exchangeData = FullListing
    /\ sharedPairs = <<FullGroup>>
    /\ pairsToAnalyze = <<FullGroup>>
    /\ i = 0
    /\ results \in StatusAnswers
    /\ abandoned = 0
    /\ enriched = Some(ProbeEnriched)
    /\ cands = ProbeCands
    /\ k = 1
    /\ validated = None
    /\ yielded = <<>>
    /\ trace = RunPrefix \o Issued("fetchTicker", 0, 0, Len(FullGroup.exchanges))
               \o <<Event("enriched", 0, 0, 1), Event("detected", 0, Len(ProbeCands), 0)>>
               \o Issued("getAssetStatus", 0, 1, 4)

NextValidator == ValidateReturns \/ Yield \/ AddOpportunity

SpecValidator == InitValidator /\ [][NextValidator]_vars

-----------------------------------------------------------------------------
(* run(initialIndex, finalIndex) over windows of a list of three groups *)

\* Three symbols, each listed by X and Y.
WindowListing ==
    << [name |-> "X", pairs |-> <<MkPair("X", "AAA", "USDT"), MkPair("X", "BBB", "USDT"),
                                  MkPair("X", "AAA", "USDC")>>],
       [name |-> "Y", pairs |-> <<MkPair("Y", "AAA", "USDT"), MkPair("Y", "BBB", "USDT"),
                                  MkPair("Y", "AAA", "USDC")>>],
       [name |-> "Z", pairs |-> <<>>] >>

\* parseInt of INITIAL_QUANTITY_ANALYZED and FINAL_QUANTITY_ANALYZED: the
\* defaults, windows inside, across and past the list, an empty one, and
\* negative indices.
Windows ==
    {[initialIndex |-> w[1], finalIndex |-> w[2]] :
        w \in {<<0, 2000>>, <<0, 1>>, <<1, 2>>, <<1, 5>>, <<2, 1>>, <<3, 5>>,
               <<0, -1>>, <<-1, 2000>>}}

\* run() has cleared the store and fetched the pair lists.
InitWindow ==
    /\ config = ProbeConfig
    /\ window \in Windows
    /\ db = [executable |-> <<>>, potential |-> <<>>]
    /\ pc = "findSharedPairs"
    /\ exchangeData = WindowListing
    /\ sharedPairs = <<>>
    /\ pairsToAnalyze = <<>>
    /\ i = 0
    /\ results = <<>>
    /\ abandoned = 0
    /\ enriched = None
    /\ cands = <<>>
    /\ k = 1
    /\ validated = None
    /\ yielded = <<>>
    /\ trace = RunPrefix

NextWindow ==
    \/ FindShared
    \/ IssueTickers
    \/ Finish
    \/ TickerSettles
    \/ EnrichReturns
    \/ Detect
    \/ IssueStatus
    \/ StatusSettles
    \/ ValidateReturns
    \/ Yield
    \/ AddOpportunity
    \/ Delay
    \/ AbandonedSettles

SpecWindow == InitWindow /\ [][NextWindow]_vars

-----------------------------------------------------------------------------
(* The run over pair lists in which a source lists a symbol twice *)

DuplicateListings ==
    {<< [name |-> "X", pairs |-> <<MkPair("X", "AAA", "USDT"), MkPair("X", "AAA", "USDT")>>],
        [name |-> "Y", pairs |-> ys],
        [name |-> "Z", pairs |-> <<>>] >> :
        ys \in {<<>>, <<MkPair("Y", "AAA", "USDT")>>,
                <<MkPair("Y", "AAA", "USDT"), MkPair("Y", "AAA", "USDT")>>}}

\* run() has cleared the store and fetched the pair lists.
InitDuplicates ==
    /\ config = ProbeConfig
    /\ window \in RunWindows
    /\ db = [executable |-> <<>>, potential |-> <<>>]
    /\ pc = "findSharedPairs"
    /\ exchangeData \in DuplicateListings
    /\ sharedPairs = <<>>
    /\ pairsToAnalyze = <<>>
    /\ i = 0
    /\ results = <<>>
    /\ abandoned = 0
    /\ enriched = None
    /\ cands = <<>>
    /\ k = 1
    /\ validated = None
    /\ yielded = <<>>
    /\ trace = RunPrefix

SpecDuplicates == InitDuplicates /\ [][NextWindow]_vars

-----------------------------------------------------------------------------
(* getAssetStatus of the adapters: X is the OKX adapter, Y the Bybit adapter *)

\* Network names as the exchanges' APIs spell them.
RawNetworkNames == {"ERC20", "erc20", "TRC20"}

\* String.prototype.toUpperCase on these names
ToUpperCase(net) == IF net = "erc20" THEN "ERC20" ELSE net

\* One chain of an asset in an API response.
RawChains ==
    [chain : RawNetworkNames, canDep : BOOLEAN, canWd : BOOLEAN]
RawChainLists ==
    {<<>>} \cup {<<c>> : c \in RawChains} \cup {<<c, d>> : c \in RawChains, d \in RawChains}

CanDep(c) == c.canDep
CanWd(c) == c.canWd
ChainNames(chains) == [n \in 1..Len(chains) |-> chains[n].chain]
UpperChainNames(chains) == [n \in 1..Len(chains) |-> ToUpperCase(chains[n].chain)]

\* OkxApi.getAssetStatus: .filter((n) => n.canDep).map((n) => n.chain)
OkxGetAssetStatus(assetNetworks) ==
    IF assetNetworks = <<>> THEN NULL
    ELSE LET depositNetworks == ChainNames(SelectSeq(assetNetworks, CanDep))
             withdrawNetworks == ChainNames(SelectSeq(assetNetworks, CanWd))
         IN MkStatus(Len(depositNetworks) > 0, Len(withdrawNetworks) > 0,
                     depositNetworks, withdrawNetworks, "raw")

\* BybitApi.getAssetStatus: assetInfo is absent when the coin is not listed;
\* .filter(...).map((chain) => chain.chainType.toUpperCase())
BybitGetAssetStatus(assetInfo) ==
    IF assetInfo = None THEN NULL
    ELSE LET depositNetworks == UpperChainNames(SelectSeq(Get(assetInfo), CanDep))
             withdrawNetworks == UpperChainNames(SelectSeq(Get(assetInfo), CanWd))
         IN MkStatus(Len(depositNetworks) > 0, Len(withdrawNetworks) > 0,
                     depositNetworks, withdrawNetworks, "raw")

\* The four lookups of the probe candidate (buy at X, sell at Y) as the two
\* adapters answer them.
AdapterAnswers ==
    {<<OkxGetAssetStatus(okx), q, BybitGetAssetStatus(bybit), q>> :
        okx \in RawChainLists,
        bybit \in {None} \cup {Some(l) : l \in RawChainLists},
        q \in RunStatusValues}

\* streamOpportunities awaits the lookups of its only candidate, all settled.
InitAdapters ==
    /\ config = ProbeConfig
    /\ window \in RunWindows
    /\ db = [executable |-> <<>>, potential |-> <<>>]
    /\ pc = "awaitStatus"
    /\ exchangeData = FullListing
    /\ sharedPairs = <<FullGroup>>
    /\ pairsToAnalyze = <<FullGroup>>
    /\ i = 0
    /\ results \in AdapterAnswers
    /\ abandoned = 0
    /\ enriched = Some(ProbeEnriched)
    /\ cands = ProbeCands
    /\ k = 1
    /\ validated = None
    /\ yielded = <<>>
    /\ trace = RunPrefix \o Issued("fetchTicker", 0, 0, Len(FullGroup.exchanges))
               \o <<Event("enriched", 0, 0, 1), Event("detected", 0, Len(ProbeCands), 0)>>
               \o Issued("getAssetStatus", 0, 1, 4)

SpecAdapters == InitAdapters /\ [][NextValidator]_vars

-----------------------------------------------------------------------------
(* Claims *)

Records == Range(yielded) \cup Range(db.executable) \cup Range(db.potential)
                          \cup Range(validated)

Positions(ev, group, cand) ==
    {p \in 1..Len(trace) :
        trace[p].ev = ev /\ trace[p].group = group /\ trace[p].cand = cand}

\* C1: fail-closed validation. When a getAssetStatus lookup of a candidate
\* rejected, the candidate is not yielded and not stored, and the run goes on
\* with the next candidate; no record is ever yielded without a validation;
\* and a finished run has enriched every group of the window and validated
\* every candidate it detected, yielding exactly those whose validation
\* returned a value.
C1_DropStep ==
    (pc = "awaitStatus" /\ pc' # "awaitStatus" /\ AnyThrow(results))
        => /\ validated' = None
           /\ yielded' = yielded
           /\ db' = db
           /\ pc' = "validate"
           /\ k' = k + 1
           /\ i' = i
C1_RunCompletes ==
    /\ \A o \in Records : IsSome(o.validation)
    /\ pc = "done" =>
         /\ \A g \in 0..(Len(pairsToAnalyze) - 1) : Positions("enriched", g, 0) # {}
         /\ \A p \in 1..Len(trace) :
              trace[p].ev = "detected" =>
                 \A c \in 1..trace[p].cand :
                    Positions("validated", trace[p].group, c) # {}
         /\ Len(yielded) =
              Cardinality({p \in 1..Len(trace) :
                              trace[p].ev = "validated" /\ trace[p].slot = 1})
C1_FailClosed == [][C1_DropStep]_vars /\ []C1_RunCompletes

\* A run in which the first candidate of the first group was dropped, the
\* second candidate of that group was yielded and so was one of the next group.
C1_Witness ==
    /\ pc = "done"
    /\ \E p \in Positions("validated", 0, 1) : trace[p].slot = 0
    /\ \E p \in Positions("validated", 0, 2) : trace[p].slot = 1
    /\ \E p \in Positions("validated", 1, 1) : trace[p].slot = 1

\* C2: in every yielded or stored record, validation.isExecutable is true
\* exactly when buyExchange.canWithdraw and sellExchange.canDeposit are true
\* and commonNetworks is not empty.
C2_ExecutableIff ==
    \A o \in Records :
        LET v == Get(o.validation)
        IN v.isExecutable <=>
              (v.buyExchange.canWithdraw /\ v.sellExchange.canDeposit
               /\ Len(v.commonNetworks) > 0)

\* Both legs enabled, no common network: yielded as not executable.
C2_Witness ==
    \E o \in Range(yielded) :
        LET v == Get(o.validation)
        IN /\ v.buyExchange.canWithdraw
           /\ v.sellExchange.canDeposit
           /\ v.commonNetworks = <<>>
           /\ ~v.isExecutable

\* The networks of a settled lookup (none when the status is null).
NetsOf(st, field) == IF st = NULL THEN {} ELSE Range(st[field])

\* C3: when a validation returns, the set of its commonNetworks is exactly the
\* intersection of the withdrawNetworks the buy source answered for the base
\* asset and the depositNetworks the sell source answered for it.
C3_Step ==
    (pc = "awaitStatus" /\ pc' = "yield")
        => Range(Get(Get(validated').validation).commonNetworks)
             = NetsOf(results[1], "withdrawNetworks")
               \cap NetsOf(results[3], "depositNetworks")
C3_Intersection == [][C3_Step]_vars

\* withdraw {ERC20} and deposit {ERC20, TRC20} gave {ERC20}.
C3_Witness ==
    \E o \in Range(yielded) :
        LET v == Get(o.validation)
        IN /\ v.buyExchange.withdrawNetworks = Some(<<"ERC20">>)
           /\ IsSome(v.sellExchange.depositNetworks)
           /\ Range(Get(v.sellExchange.depositNetworks)) = {"ERC20", "TRC20"}
           /\ v.commonNetworks = <<"ERC20">>

\* The stored percentage and the threshold in the same unit (1/MinScale percent).
StoredInMinUnits(o) == o.profitPercentage * (MinScale \div PctScale)

\* (sellAt.price - buyAt.price) / buyAt.price * 100 >= minProfitPercentage
UnroundedClears(o) ==
    (o.sellAt.price - o.buyAt.price) * 100 * MinScale
        >= config.minProfitPercentage * o.buyAt.price

\* C4 as claimed: the stored (rounded) profitPercentage of every emitted
\* Opportunity is at least minProfitPercentage.
C4_StoredAtLeastMin ==
    \A o \in Range(cands) : StoredInMinUnits(o) >= config.minProfitPercentage

\* C4 amended: the unrounded spread of every emitted Opportunity is at least
\* minProfitPercentage; the stored profitPercentage is above
\* minProfitPercentage - 0.00005, and at least minProfitPercentage when the
\* threshold has no more than 4 decimals.
C4_UnroundedAtLeastMin ==
    \A o \in Range(cands) :
        /\ UnroundedClears(o)
        /\ 2 * StoredInMinUnits(o) + (MinScale \div PctScale)
              > 2 * config.minProfitPercentage
        /\ config.minProfitPercentage % (MinScale \div PctScale) = 0
              => StoredInMinUnits(o) >= config.minProfitPercentage

\* Threshold 33.33332, ask 3, bid 4: emitted with 33.3333 stored.
C4_Witness ==
    /\ config.minProfitPercentage = 3333332
    /\ \E o \in Range(cands) :
          o.buyAt.price = 3 /\ o.sellAt.price = 4 /\ o.profitPercentage = 333333

\* The ticker a source answered for the current group.
TickerOf(name) ==
    LET m == Get(enriched).tickers
    IN m[CHOOSE n \in 1..Len(m) : m[n].name = name].ticker

SamePriceFields(a, b) ==
    /\ a.pair = b.pair
    /\ a.profitPercentage = b.profitPercentage
    /\ a.buyAt = b.buyAt
    /\ a.sellAt = b.sellAt

\* C5: whatever the threshold, every emitted, yielded or stored Opportunity has
\* sellAt.price > buyAt.price; an emitted one buys at the ask of its buy source
\* and sells at the bid of its sell source, the validated one keeps the price
\* fields of the candidate, and what is stored in this run was yielded.
C5_SellAboveBuy ==
    /\ \A o \in Range(cands) \cup Records : o.sellAt.price > o.buyAt.price
    /\ (pc \in {"validate", "awaitStatus", "yield", "add"} /\ IsSome(enriched)) =>
          \A o \in Range(cands) :
             /\ o.buyAt.price = TickerOf(o.buyAt.exchange).ask
             /\ o.sellAt.price = TickerOf(o.sellAt.exchange).bid
    /\ pc \in {"yield", "add"} => SamePriceFields(Get(validated), cands[k])
    /\ pc = "add" => yielded[Len(yielded)] = Get(validated)
    /\ pc \notin {"clearExecutable", "clearPotential"} =>
          Range(db.executable) \cup Range(db.potential) \subseteq Range(yielded)

\* A finished run with a negative threshold that stored an opportunity.
C5_Witness ==
    /\ pc = "done"
    /\ config.minProfitPercentage < 0
    /\ Len(db.executable) + Len(db.potential) > 0

SourcesOf(group) == {group.exchanges[n].name : n \in 1..Len(group.exchanges)}

\* C6 as claimed: every group findSharedPairs produces has members from at
\* least 2 distinct sources (a symbol listed by one source only, even more than
\* once, gets no group).
C6_TwoDistinctSources ==
    pc = "loop" => \A g \in Range(sharedPairs) : Cardinality(SourcesOf(g)) >= 2

\* The sources whose fetchTicker has answered a ticker.
UsableSources(group, res) ==
    {group.exchanges[n].name :
        n \in {m \in 1..Len(res) : res[m] \notin {Pending, NULL, THROW}}}

\* C7 as claimed: when the enricher returns for a group of which at least 2
\* sources answered a usable ticker, it returns an EnrichedGroup, whatever
\* happened to the fetchTicker of another source.
C7_Step ==
    (pc = "awaitTickers" /\ pc' # "awaitTickers"
        /\ Cardinality(UsableSources(Group, results)) >= 2)
        => IsSome(enriched')
C7_FailOpenPerSource == [][C7_Step]_vars

\* The listings of a symbol that pass the quote filter, in scan order.
RECURSIVE ListingsOf(_, _, _)
ListingsOf(sym, allowed, data) ==
    IF data = <<>> THEN <<>>
    ELSE LET Keep(pair) == pair.symbol = sym /\ pair.quote \in allowed
             kept == SelectSeq(Head(data).pairs, Keep)
         IN [n \in 1..Len(kept) |-> [name |-> Head(data).name, pairData |-> kept[n]]]
            \o ListingsOf(sym, allowed, Tail(data))

AllowedQuotes ==
    IF IsSome(config.quoteAssetsFilter) /\ Get(config.quoteAssetsFilter) # <<>>
    THEN Range(Get(config.quoteAssetsFilter))
    ELSE Quotes

\* C8: with a non-empty quoteAssetsFilter every member of every group has its
\* quote in the filter; with the filter absent or empty every quote is allowed;
\* and a symbol has a group exactly when it has 2 or more allowed listings, the
\* members of the group being those listings.
C8_QuoteFilter ==
    pc = "loop" =>
       /\ \A g \in Range(sharedPairs) :
             \A n \in 1..Len(g.exchanges) :
                g.exchanges[n].pairData.quote \in AllowedQuotes
       /\ \A sym \in ListedSymbols :
             LET ls == ListingsOf(sym, AllowedQuotes, exchangeData)
                 gs == {n \in 1..Len(sharedPairs) : sharedPairs[n].symbol = sym}
             IN IF Len(ls) >= 2
                THEN \E n \in gs : sharedPairs[n].exchanges = ls
                ELSE gs = {}

\* Filter {USDT}: AAA/USDC, listed by 2 sources, is in no group, while
\* AAA/USDT has one.
C8_Witness ==
    /\ pc = "loop"
    /\ config.quoteAssetsFilter = Some(<<"USDT">>)
    /\ Len(ListingsOf(<<"AAA", "USDC">>, Quotes, exchangeData)) >= 2
    /\ \E g \in Range(sharedPairs) : g.symbol = <<"AAA", "USDT">>

\* Position of a yielded record: its group in the processed list, its buy and
\* its sell source among the members of that group.
GroupPos(o) == CHOOSE n \in 1..Len(pairsToAnalyze) : pairsToAnalyze[n].symbol = o.pair
MemberPos(o, name) ==
    LET ex == pairsToAnalyze[GroupPos(o)].exchanges
    IN CHOOSE n \in 1..Len(ex) :
          ex[n].name = name /\ \A m \in 1..(n - 1) : ex[m].name # name
Before(a, b) ==
    \/ GroupPos(a) < GroupPos(b)
    \/ /\ GroupPos(a) = GroupPos(b)
       /\ \/ MemberPos(a, a.buyAt.exchange) < MemberPos(b, b.buyAt.exchange)
          \/ /\ MemberPos(a, a.buyAt.exchange) = MemberPos(b, b.buyAt.exchange)
             /\ MemberPos(a, a.sellAt.exchange) < MemberPos(b, b.sellAt.exchange)

\* C9: the yielded sequence is in group order and, within a group, in (i, j)
\* order: buy source first, then sell source, both in member order.
C9_YieldOrder ==
    \A n \in 1..(Len(yielded) - 1) : Before(yielded[n], yielded[n + 1])

\* Two records of the first group, then one of the second, the more
\* profitable one not first.
C9_Witness ==
    /\ Len(yielded) >= 3
    /\ yielded[1].pair = yielded[2].pair
    /\ yielded[3].pair # yielded[2].pair
    /\ yielded[1].sellAt.exchange # yielded[2].sellAt.exchange

IsRequest(e) == e.ev \in {"fetchTicker", "getAssetStatus"}

\* Before position p of the history, the group has been enriched and, when
\* it was enriched to a value, detected and all its candidates validated.
CompletedBefore(group, p) ==
    \E q \in Positions("enriched", group, 0) :
       /\ q < p
       /\ trace[q].slot = 1 =>
             \E d \in 1..(p - 1) :
                /\ trace[d].ev = "detected"
                /\ trace[d].group = group
                /\ \A c \in 1..trace[d].cand :
                      \E v \in Positions("validated", group, c) : v < p

\* C10: groups are processed one at a time, in list order: when a fetchTicker
\* or getAssetStatus request of a group is issued, the enrichment, detection
\* and every validation of each earlier group have returned, and no request
\* of an earlier group follows.
C10_OneGroupAtATime ==
    \A p \in 1..Len(trace) :
       IsRequest(trace[p]) =>
          /\ \A h \in 0..(trace[p].group - 1) : CompletedBefore(h, p)
          /\ \A q \in 1..(p - 1) : trace[q].group <= trace[p].group

\* The second group is being enriched after two candidates of the first
\* group were validated.
C10_Witness ==
    /\ pc = "awaitTickers"
    /\ i = 1
    /\ Positions("validated", 0, 2) # {}

\* C11 as claimed: before the first fetchTicker request of every group but
\* the first, the delay after the group before it has elapsed, whether that
\* group was discarded by the enricher, had no candidate, or was validated.
C11_DelayBetweenGroups ==
    \A p \in 1..Len(trace) :
       (trace[p].ev = "fetchTicker" /\ trace[p].group > 0) =>
          \E q \in 1..(p - 1) :
             trace[q].ev = "delay" /\ trace[q].group = trace[p].group - 1

Clears(flag) == {p \in 1..Len(trace) : trace[p].ev = "clear" /\ trace[p].slot = flag}

\* C12: in a run, clear is invoked once for "executable" and once for
\* "potential", before pair data is fetched and before any add; no clear
\* follows; and what the store held before the run is gone after the clears.
C12_ClearOnceAtStart ==
    /\ Cardinality(Clears(1)) = IF pc = "clearExecutable" THEN 0 ELSE 1
    /\ Cardinality(Clears(0)) =
          IF pc \in {"clearExecutable", "clearPotential"} THEN 0 ELSE 1
    /\ \A p \in 1..Len(trace) :
          trace[p].ev \in {"fetchAllPairs", "add"} =>
             /\ \A q \in Clears(0) \cup Clears(1) : q < p
             /\ Clears(0) # {} /\ Clears(1) # {}
    /\ pc # "clearExecutable" => OldRecord(TRUE) \notin Range(db.executable)
    /\ pc \notin {"clearExecutable", "clearPotential"} =>
          OldRecord(FALSE) \notin Range(db.potential)

\* A finished run that added to both categories.
C12_Witness ==
    /\ pc = "done"
    /\ \E p, q \in 1..Len(trace) :
          /\ trace[p].ev = "add" /\ trace[p].slot = 1
          /\ trace[q].ev = "add" /\ trace[q].slot = 0

IsExecutable(o) == IsSome(o.validation) /\ Get(o.validation).isExecutable
IsNotExecutable(o) == ~IsExecutable(o)

\* The yielded records whose add has returned.
Consumed == IF pc = "add" THEN SubSeq(yielded, 1, Len(yielded) - 1) ELSE yielded

\* C13: once the store is cleared, the executable collection is the sequence
\* of consumed yielded records with validation.isExecutable true and the
\* potential collection the sequence of those with it false: every yielded
\* record is appended once, to one category, chosen by isExecutable.
C13_OneCategoryByExecutable ==
    pc \notin {"clearExecutable", "clearPotential"} =>
       /\ db.executable = SelectSeq(Consumed, IsExecutable)
       /\ db.potential = SelectSeq(Consumed, IsNotExecutable)
       /\ Cardinality({p \in 1..Len(trace) : trace[p].ev = "add"}) = Len(Consumed)

\* A finished run that stored an executable and a non-executable record.
C13_Witness ==
    /\ pc = "done"
    /\ Len(yielded) >= 2
    /\ \E o \in Range(db.executable) : IsExecutable(o)
    /\ \E o \in Range(db.potential) : IsNotExecutable(o)

NoPairData ==
    /\ exchangeData # <<>>
    /\ \A n \in 1..Len(exchangeData) : exchangeData[n].pairs = <<>>

\* C14 as claimed: a run in which every source's fetchAllPairs yielded nothing
\* does not finish as a successful run (it ends in exit status 1).
C14_NoPairDataIsFatal == NoPairData => pc # "done"

\* Every record whose validation returned a value is in the store.
AllValidatedStored ==
    /\ Len(db.executable) + Len(db.potential) =
          Cardinality({p \in 1..Len(trace) :
                          trace[p].ev = "validated" /\ trace[p].slot = 1})
    /\ Range(yielded) = Range(db.executable) \cup Range(db.potential)

\* C15: when every call eventually returns, a run that obtained its pair
\* lists reaches the final summary, whatever fetchTicker and getAssetStatus
\* answered; it has then gone through every group of the window and stored
\* every opportunity whose validation returned a value.
C15_Terminates ==
    /\ (pc = "findSharedPairs") ~> (pc = "done")
    /\ [](pc = "done" => (i = Len(pairsToAnalyze) /\ AllValidatedStored))

\* A finished run in which a validation of the first group failed, another
\* one was stored, and the enrichment of the second group failed.
C15_Witness ==
    /\ pc = "done"
    /\ \E p \in Positions("validated", 0, 1) : trace[p].slot = 0
    /\ Positions("add", 0, 2) # {}
    /\ \E p \in Positions("enriched", 1, 0) : trace[p].slot = 0

\* The ticker entries of the enriched group and the record of buying at entry
\* a and selling at entry b.
Entries == Get(enriched).tickers
IsTradeOf(o, a, b) ==
    /\ o.pair = Get(enriched).symbol
    /\ o.buyAt = [exchange |-> Entries[a].name, price |-> Entries[a].ticker.ask]
    /\ o.sellAt = [exchange |-> Entries[b].name, price |-> Entries[b].ticker.bid]
Emitted(a, b) == \E n \in 1..Len(cands) : IsTradeOf(cands[n], a, b)

\* ask_a > 0 and (bid_b - ask_a) / ask_a * 100 >= minProfitPercentage
AskPositiveAndClears(a, b) ==
    /\ Entries[a].ticker.ask > 0
    /\ (Entries[b].ticker.bid - Entries[a].ticker.ask) * 100 * MinScale
          >= config.minProfitPercentage * Entries[a].ticker.ask

\* C16 as claimed: for every ordered pair (a, b) of distinct entries, an
\* Opportunity buying at a and selling at b is emitted if and only if
\* ask_a > 0 and the spread is at least minProfitPercentage, for every
\* threshold.
C16_EmitsIffClears ==
    pc # "detect" =>
       \A a, b \in 1..Len(Entries) :
          a # b => (Emitted(a, b) <=> AskPositiveAndClears(a, b))

\* C16 amended: ... if and only if ask_a > 0, bid_b > ask_a and the spread is
\* at least minProfitPercentage; each direction is decided on its own, and
\* nothing else is emitted.
C16_EmitsIffPositiveAndClears ==
    pc # "detect" =>
       /\ \A a, b \in 1..Len(Entries) :
             a # b =>
                (Emitted(a, b) <=>
                    (Entries[b].ticker.bid > Entries[a].ticker.ask
                        /\ AskPositiveAndClears(a, b)))
       /\ Len(cands) =
             Cardinality({ab \in (1..Len(Entries)) \X (1..Len(Entries)) :
                             ab[1] # ab[2] /\ Emitted(ab[1], ab[2])})

\* X (ask 100, bid 99.5) and Y (ask 105, bid 103), in half units, at threshold
\* 0.5: the one candidate buys at X and sells at Y with 3.0000 percent.
C16_Witness ==
    /\ pc # "detect"
    /\ config.minProfitPercentage = MinScale \div 2
    /\ Len(Entries) = 2
    /\ Entries[1] = [name |-> "X", ticker |-> MkTicker("X", 200, 199)]
    /\ Entries[2] = [name |-> "Y", ticker |-> MkTicker("Y", 210, 206)]
    /\ Len(cands) = 1
    /\ IsTradeOf(cands[1], 1, 2)
    /\ cands[1].profitPercentage = 3 * PctScale

\* The ticker that the member of the given source answered.
AnswerOf(group, res, name) ==
    res[CHOOSE n \in 1..Len(res) : group.exchanges[n].name = name]

EnrichedWellFormed(ep, group, res) ==
    /\ Len(ep.tickers) >= 2
    /\ \A n \in 1..Len(ep.tickers) :
          /\ ep.tickers[n].name \in UsableSources(group, res)
          /\ ep.tickers[n].ticker = AnswerOf(group, res, ep.tickers[n].name)

\* C17 as claimed: the enricher returns no EnrichedGroup if and only if fewer
\* than 2 distinct sources returned a usable ticker; a returned EnrichedGroup
\* has at least 2 entries, keyed by sources of members, each holding the
\* ticker that source returned.
C17_Step ==
    (pc = "awaitTickers" /\ pc' # "awaitTickers") =>
       /\ enriched' = None <=> Cardinality(UsableSources(Group, results)) < 2
       /\ IsSome(enriched') => EnrichedWellFormed(Get(enriched'), Group, results)
C17_NoneIffFewerThanTwo == [][C17_Step]_vars

\* The same statement for the returns in which no fetchTicker rejected.
C17_StepWithoutRejection ==
    (pc = "awaitTickers" /\ pc' # "awaitTickers" /\ ~AnyThrow(results)) =>
       /\ enriched' = None <=> Cardinality(UsableSources(Group, results)) < 2
       /\ IsSome(enriched') => EnrichedWellFormed(Get(enriched'), Group, results)
C17_HoldsWithoutRejection == [][C17_StepWithoutRejection]_vars

\* C18: a second call of findSharedPairs with the same pair lists and config
\* returns the same groups (same symbols, same members) as the first, and no
\* call changes the pair lists or the config.
C18_Step ==
    /\ (pc = "loop" /\ pc' = "resolvedTwice") =>
          /\ Range(sharedPairs') = Range(sharedPairs)
          /\ Len(sharedPairs') = Len(sharedPairs)
    /\ pc' \in {"loop", "resolvedTwice"} =>
          (exchangeData' = exchangeData /\ config' = config)
OptionalNets(m) == IF IsSome(m) THEN Range(Get(m)) ELSE {}

\* C19 as claimed: every network identifier a source delivers is in one
\* case, and a withdrawal network of the buy source and a deposit network of
\* the sell source that differ only in case are in commonNetworks.
C19_CaseInsensitive ==
    \A o \in Records :
       LET v == Get(o.validation)
           w == OptionalNets(v.buyExchange.withdrawNetworks)
           d == OptionalNets(v.sellExchange.depositNetworks)
       IN /\ \A n \in w \cup d : ToUpperCase(n) = n
          /\ \A n \in w, m \in d :
                ToUpperCase(n) = ToUpperCase(m) =>
                   \E c \in Range(v.commonNetworks) : ToUpperCase(c) = ToUpperCase(n)

\* C20: when a validation returns and no lookup rejected, but the status of the
\* base asset is absent on the buy or on the sell source, the candidate is
\* yielded next with a validation whose flag of the absent side is false,
\* whose commonNetworks is empty and whose isExecutable is false, and with
\* pair, profitPercentage, buyAt and sellAt of the candidate; what is yielded
\* is that record.
C20_Step ==
    /\ (pc = "awaitStatus" /\ pc' # "awaitStatus" /\ ~AnyThrow(results)
           /\ (results[1] = NULL \/ results[3] = NULL)) =>
          /\ pc' = "yield"
          /\ IsSome(validated')
          /\ IsSome(Get(validated').validation)
          /\ LET v == Get(Get(validated').validation)
             IN /\ results[1] = NULL => v.buyExchange.canWithdraw = FALSE
                /\ results[3] = NULL => v.sellExchange.canDeposit = FALSE
                /\ v.commonNetworks = <<>>
                /\ v.isExecutable = FALSE
          /\ SamePriceFields(Get(validated'), cands[k])
    /\ pc = "yield" => (pc' = "add" /\ yielded' = Append(yielded, Get(validated)))
C20_AbsentStatusDefaults == [][C20_Step]_vars

\* Yielded and stored as potential: no status on the buy source, a sell source
\* that can deposit.
C20_Witness ==
    \E o \in Range(yielded) \cap Range(db.potential) :
        LET v == Get(o.validation)
        IN /\ v.buyExchange.withdrawNetworks = None
           /\ v.buyExchange.canWithdraw = FALSE
           /\ v.sellExchange.canDeposit = TRUE
           /\ v.isExecutable = FALSE

\* C21 as claimed: when the fetchAllPairs of one source fails and the others
\* succeed, the run goes on to build the shared groups (from the lists of the
\* remaining sources) instead of ending.
C21_Step ==
    (pc = "fetchAllPairs" /\ pc' # "fetchAllPairs"
        /\ Cardinality({n \in 1..Len(results') : results'[n] = THROW}) = 1)
        => pc' = "findSharedPairs"
WindowPositions(lo, hi) == {p \in 0..(Len(sharedPairs) - 1) : lo <= p /\ p < hi}

\* The run processes exactly the groups at the positions lo <= p < hi, in list
\* order: requests are issued for these groups only, every record is of one
\* of them, and a finished run has gone through each of them.
ProcessesWindow(lo, hi) ==
    LET pos == WindowPositions(lo, hi)
        first == IF pos = {} THEN 0 ELSE CHOOSE p \in pos : \A q \in pos : p <= q
    IN /\ Len(pairsToAnalyze) = Cardinality(pos)
       /\ \A n \in 1..Len(pairsToAnalyze) : pairsToAnalyze[n] = sharedPairs[first + n]
       /\ \A p \in 1..Len(trace) :
             IsRequest(trace[p]) => trace[p].group < Cardinality(pos)
       /\ \A o \in Records : o.pair \in {sharedPairs[p + 1].symbol : p \in pos}
       /\ pc = "done" =>
             \A g \in 0..(Cardinality(pos) - 1) : Positions("enriched", g, 0) # {}
       /\ pc # "exit1"

\* C24 as claimed: run(initialIndex, finalIndex) processes exactly the groups
\* at positions initialIndex <= p < finalIndex of the resolver's list.
C24_WindowAsGiven ==
    pc # "findSharedPairs" => ProcessesWindow(window.initialIndex, window.finalIndex)

\* An index as the run reads it: a negative one counts from the end of the list.
FromEnd(n) ==
    IF n >= 0 THEN n
    ELSE IF n + Len(sharedPairs) >= 0 THEN n + Len(sharedPairs) ELSE 0

\* C24 amended: ... at positions s <= p < e, where s and e are initialIndex
\* and finalIndex, a negative one counted from the end of the list (for
\* non-negative indices: initialIndex <= p < finalIndex).
C24_WindowFromEnd ==
    pc # "findSharedPairs" =>
       ProcessesWindow(FromEnd(window.initialIndex), FromEnd(window.finalIndex))

\* A finished run over the window 1..5 of a list of 3 groups: the second and
\* the third group were processed and a record of the third is stored.
C24_Witness ==
    /\ pc = "done"
    /\ window = [initialIndex |-> 1, finalIndex |-> 5]
    /\ Len(sharedPairs) = 3
    /\ pairsToAnalyze = <<sharedPairs[2], sharedPairs[3]>>
    /\ \E o \in Range(db.executable) \cup Range(db.potential) :
          o.pair = sharedPairs[3].symbol

\* The number of times a request was issued.
TimesIssued(ev, group, cand, slot) ==
    Cardinality({p \in Positions(ev, group, cand) : trace[p].slot = slot})

\* The numbers of candidates that detection returned for a group (none when
\* the group was not detected).
DetectedCounts(group) ==
    {trace[p].cand : p \in {q \in 1..Len(trace) :
                               trace[q].ev = "detected" /\ trace[q].group = group}}

\* C22: no request is issued twice: fetchTicker at most once per member of a
\* group of the window, getAssetStatus at most once per lookup of a detected
\* candidate, whatever the earlier answers were; a finished run has issued
\* fetchTicker exactly once per member of every group of the window and
\* exactly the four getAssetStatus lookups of every detected candidate; and
\* no request is of a group outside the window.
C22_NoRetry ==
    /\ \A p \in 1..Len(trace) :
          IsRequest(trace[p]) =>
             /\ TimesIssued(trace[p].ev, trace[p].group, trace[p].cand, trace[p].slot) = 1
             /\ trace[p].group < Len(pairsToAnalyze)
             /\ trace[p].ev = "fetchTicker" =>
                   trace[p].slot \in 1..Len(pairsToAnalyze[trace[p].group + 1].exchanges)
             /\ trace[p].ev = "getAssetStatus" =>
                   /\ trace[p].slot \in 1..4
                   /\ \E n \in DetectedCounts(trace[p].group) : trace[p].cand \in 1..n
    /\ pc = "done" =>
          \A g \in 0..(Len(pairsToAnalyze) - 1) :
             /\ \A m \in 1..Len(pairsToAnalyze[g + 1].exchanges) :
                   TimesIssued("fetchTicker", g, 0, m) = 1
             /\ \A n \in DetectedCounts(g) : \A c \in 1..n : \A m \in 1..4 :
                   TimesIssued("getAssetStatus", g, c, m) = 1

\* A finished run over the window 0..1 in which the one group's candidate was
\* dropped by a failed lookup: 2 fetchTicker and 4 getAssetStatus requests.
C22_Witness ==
    /\ pc = "done"
    /\ window = [initialIndex |-> 0, finalIndex |-> 1]
    /\ \E p \in Positions("validated", 0, 1) : trace[p].slot = 0
    /\ Cardinality({p \in 1..Len(trace) : IsRequest(trace[p])}) = 6

\* The consumer has stopped the sequence: the for await left its body with the
\* last yielded record not added.
ConsumerStopped == pc = "exit1" /\ yielded # <<>>

\* C23 as claimed: when the consumer stops the sequence, the group in progress
\* is not aborted: every candidate that detection returned for it is still
\* validated.
C23_GroupNotAborted ==
    ConsumerStopped =>
       \A p \in 1..Len(trace) :
          trace[p].ev = "detected" =>
             \A c \in 1..trace[p].cand : Positions("validated", trace[p].group, c) # {}

\* Every listing that passes the quote filter, sources in their given order,
\* each source's pairs in listing order.
RECURSIVE ScanOf(_)
ScanOf(data) ==
    IF data = <<>> THEN <<>>
    ELSE LET Allowed(pair) == pair.quote \in AllowedQuotes
             kept == SelectSeq(Head(data).pairs, Allowed)
         IN [n \in 1..Len(kept) |-> [name |-> Head(data).name, pairData |-> kept[n]]]
            \o ScanOf(Tail(data))

FirstSeen(scan, sym) ==
    CHOOSE n \in 1..Len(scan) :
       /\ scan[n].pairData.symbol = sym
       /\ \A m \in 1..(n - 1) : scan[m].pairData.symbol # sym

\* C25: the groups come in the order in which their symbols are first seen in
\* the scan, one group per symbol, and the members of a group are the
\* listings of its symbol in scan order.
C25_FirstSeenOrder ==
    pc = "loop" =>
       LET scan == ScanOf(exchangeData)
       IN /\ \A a, b \in 1..Len(sharedPairs) :
                a < b => FirstSeen(scan, sharedPairs[a].symbol)
                           < FirstSeen(scan, sharedPairs[b].symbol)
          /\ \A a \in 1..Len(sharedPairs) :
                LET OfSymbol(l) == l.pairData.symbol = sharedPairs[a].symbol
                IN sharedPairs[a].exchanges = SelectSeq(scan, OfSymbol)

\* X lists BBB/USDT before AAA/USDT, Y the other way round: the group of
\* BBB/USDT comes first.
C25_Witness ==
    /\ pc = "loop"
    /\ Len(sharedPairs) = 2
    /\ sharedPairs[1].symbol = <<"BBB", "USDT">>
    /\ sharedPairs[2].symbol = <<"AAA", "USDT">>
    /\ Len(exchangeData[2].pairs) = 2
    /\ exchangeData[2].pairs[1].symbol = <<"AAA", "USDT">>

\* The requests issued and not yet answered: those of the pending Promise.all
\* and those left behind by a Promise.all that rejected.
Outstanding ==
    abandoned + (IF pc \in {"awaitTickers", "awaitStatus"} THEN NumPending(results) ELSE 0)

MembersOfCurrentGroup == IF i < Len(pairsToAnalyze) THEN Len(Group.exchanges) ELSE 0

\* C26 as claimed: after pair resolution, at most max(members of the current
\* group, 4) requests are outstanding, and while the lookups of a candidate
\* are outstanding no ticker request and no lookup of another candidate is.
C26_BoundedOutstanding ==
    /\ Outstanding <= (IF MembersOfCurrentGroup > 4 THEN MembersOfCurrentGroup ELSE 4)
    /\ pc = "awaitStatus" => abandoned = 0

\* C27: every emitted, yielded or stored opportunity buys and sells at
\* different sources, also when a source is a member of the group more than
\* once; the ticker map has one entry per source, and a group whose members
\* are all of one source is never enriched.
C27_Distinct ==
    /\ \A o \in Range(cands) \cup Records : o.buyAt.exchange # o.sellAt.exchange
    /\ IsSome(enriched) =>
          \A a, b \in 1..Len(Get(enriched).tickers) :
             a # b => Get(enriched).tickers[a].name # Get(enriched).tickers[b].name
C27_Step ==
    (pc = "awaitTickers" /\ pc' # "awaitTickers" /\ Cardinality(SourcesOf(Group)) < 2)
        => enriched' = None
C27_DistinctSources == []C27_Distinct /\ [][C27_Step]_vars

\* A finished run over a group with members X, X, Y that stored a record.
C27_Witness ==
    /\ pc = "done"
    /\ Len(pairsToAnalyze) = 1
    /\ Len(pairsToAnalyze[1].exchanges) = 3
    /\ SourcesOf(pairsToAnalyze[1]) = {"X", "Y"}
    /\ Len(db.executable) + Len(db.potential) > 0

IsYieldOf(e) == e.ev = "validated" /\ e.slot = 1

\* C28: the add of a yielded record returns before anything else happens in
\* the generator: in the history every add directly follows the return of the
\* validation of its record, and whatever follows the return of a validation
\* with a value (a request, another validation, the delay) comes after the
\* add of that record; so the adds do not overlap and each category holds its
\* records in yield order.
C28_AddBeforeNextRequest ==
    /\ \A p \in 1..Len(trace) :
          /\ trace[p].ev = "add" =>
                /\ p > 1
                /\ IsYieldOf(trace[p - 1])
                /\ trace[p - 1].group = trace[p].group
                /\ trace[p - 1].cand = trace[p].cand
          /\ (IsYieldOf(trace[p]) /\ p < Len(trace)) => trace[p + 1].ev = "add"
    /\ pc \notin {"clearExecutable", "clearPotential"} =>
          /\ db.executable = SelectSeq(Consumed, IsExecutable)
          /\ db.potential = SelectSeq(Consumed, IsNotExecutable)

\* A finished run that added two records to the same category, with requests
\* issued between the two adds.
C28_Witness ==
    /\ pc = "done"
    /\ Len(db.potential) >= 2
    /\ \E a, q, b \in 1..Len(trace) :
          /\ a < q /\ q < b
          /\ trace[a].ev = "add" /\ trace[a].slot = 0
          /\ IsRequest(trace[q])
          /\ trace[b].ev = "add" /\ trace[b].slot = 0

\* The full response vectors that agree with the responses arrived so far: one
\* for every way the calls still pending could be answered.
TickerCompletions ==
    {c \in [1..Len(results) -> UNION {RunTickerResponses(x) : x \in Range(ExchangeNames)}] :
        \A n \in 1..Len(results) :
           /\ c[n] \in RunTickerResponses(Group.exchanges[n].name)
           /\ results[n] # Pending => c[n] = results[n]}
StatusCompletions ==
    {c \in [1..Len(results) -> UNION {RunStatusResponses(r) : r \in Range(StatusRequests(cands[k]))}] :
        \A n \in 1..Len(results) :
           /\ c[n] \in RunStatusResponses(StatusRequests(cands[k])[n])
           /\ results[n] # Pending => c[n] = results[n]}

\* C29: what _enrichSinglePairWithTickers and _validateSingleOpportunity return
\* is a function of the responses by position in the array of calls, whatever
\* the order of arrival and whichever calls were still pending when the
\* Promise.all settled: the value returned is the one computed from any full
\* vector of responses that agrees with those arrived; and the yielded
\* sequence grows by exactly the returned validated record.
C29_ResultOf ==
    /\ (pc = "awaitTickers" /\ pc' # "awaitTickers") =>
          \A c \in TickerCompletions :
             enriched' = EnrichSinglePairWithTickers(Group, c)
    /\ (pc = "awaitStatus" /\ pc' # "awaitStatus") =>
          \A c \in StatusCompletions :
             validated' = ValidateSingleOpportunity(cands[k], c)
    /\ yielded' # yielded => (IsSome(validated) /\ yielded' = Append(yielded, Get(validated)))
C29_OrderIndependent == [][C29_ResultOf]_vars

\* A record was yielded from lookups that all arrived, and a later
\* enrichment returned null while some of its fetches were still pending.
C29_Witness ==
    /\ Len(yielded) >= 1
    /\ abandoned >= 1
    /\ pc \in {"loop", "done"}
    /\ \E p \in 1..Len(trace) :
          /\ trace[p].ev = "enriched" /\ trace[p].slot = 0
          /\ \E q \in 1..(p - 1) : trace[q].ev = "add"

\* The yielded records whose add had returned when the run ended with exit
\* status 1: all but the last one when an add rejected, none when
\* fetchAllPairsFromRepositories rejected.
AddedBeforeExit ==
    IF yielded = <<>> THEN <<>> ELSE SubSeq(yielded, 1, Len(yielded) - 1)

\* C30: when the run ends with exit status 1 after the two clears (a rejected
\* fetchAllPairs or a rejected add), the store holds none of the records the
\* earlier run left and exactly the records this run added, each in its
\* category in yield order.
C30_AbortKeepsOnlyThisRun ==
    pc = "exit1" =>
       /\ db.executable = SelectSeq(AddedBeforeExit, IsExecutable)
       /\ db.potential = SelectSeq(AddedBeforeExit, IsNotExecutable)
       /\ OldRecord(TRUE) \notin Range(db.executable)
       /\ OldRecord(FALSE) \notin Range(db.potential)
       /\ Cardinality({p \in 1..Len(trace) : trace[p].ev = "add"}) = Len(AddedBeforeExit)
       /\ Clears(1) # {} /\ Clears(0) # {}

\* An add rejected after an earlier add of this run had returned.
C30_Witness ==
    /\ pc = "exit1"
    /\ Len(yielded) >= 2
    /\ Len(db.executable) + Len(db.potential) = Len(yielded) - 1

=============================================================================
